---------------------------- MODULE Spec2Model ----------------------------
(***************************************************************************)
(* Model of src/native/ping.c: the `open` entry point of the ping addon,   *)
(* its worker-thread executor (_open_execute / _open_execute_fail) and its *)
(* completion step (_open_complete).                                       *)
(*                                                                         *)
(* The JavaScript thread runs `_open` and `_open_complete` to completion,  *)
(* so each is one action.  The executor runs on a libuv worker thread and  *)
(* is split at its system calls (socket, interface bind, address bind), so *)
(* that executors of different requests interleave on the process-wide     *)
(* descriptor table.                                                       *)
(*                                                                         *)
(* The Node-API runtime and libc are not part of the repository; they are  *)
(* modelled by their documented contract:                                  *)
(*  - any napi_ call may return a status other than napi_ok (the failing   *)
(*    call of an invocation is the input `nf`, 0 for none);                *)
(*  - only napi_call_function refuses to run while an exception is         *)
(*    pending; napi_typeof, napi_get_value_*, napi_create_* and            *)
(*    napi_queue_async_work do not look at the pending exception;          *)
(*  - the complete callback of an async work runs once, on the JavaScript  *)
(*    thread, after its execute callback has returned;                     *)
(*  - socket() returns the lowest-numbered free descriptor.                *)
(***************************************************************************)
EXTENDS Integers, Sequences, FiniteSets, TLC

(***************************************************************************)
(* Bounds of the model                                                     *)
(***************************************************************************)
\* number of calls to `open` in a behaviour
MaxCalls == 2
\* highest descriptor number of the process descriptor table
MaxFd == 4

(***************************************************************************)
(* Program constants                                                       *)
(***************************************************************************)
AF_INET == 2
AF_INET6 == 10
IFNAMSIZ == 16
\* sizeof(struct sockaddr_in), sizeof(struct sockaddr_in6)
SizeofSockaddrIn == 16
SizeofSockaddrIn6 == 28
\* `char __buffer[42]` and the `__size > 40` test of the from address
FromAddressBufferSize == 42
FromAddressMaxLength == 40
EAFNOSUPPORT == 97

Calls == 1..MaxCalls
Fds == 0..MaxFd

Min(a, b) == IF a < b THEN a ELSE b

(***************************************************************************)
(* Strings.  A C string is a TLA+ string; Char(s, i) is its i-th character *)
(* as a one-character string.  The recursive definitions are functions, so *)
(* that they recurse on values.                                            *)
(***************************************************************************)
Char(s, i) == SubSeq(s, i, i)

Take(s, n) == SubSeq(s, 1, Min(n, Len(s)))

\* position of the first occurrence of character c in s, 0 if there is none
IndexOf[s \in STRING, c \in STRING] ==
  IF \E i \in 1..Len(s) : Char(s, i) = c
    THEN CHOOSE i \in 1..Len(s) :
           /\ Char(s, i) = c
           /\ \A j \in 1..(i - 1) : Char(s, j) # c
    ELSE 0

\* the tokens of s between occurrences of the separator character
Split[s \in STRING, sep \in STRING] ==
  IF IndexOf[s, sep] = 0 THEN <<s>>
  ELSE <<SubSeq(s, 1, IndexOf[s, sep] - 1)>>
         \o Split[SubSeq(s, IndexOf[s, sep] + 1, Len(s)), sep]

DecDigit ==
  "0" :> 0 @@ "1" :> 1 @@ "2" :> 2 @@ "3" :> 3 @@ "4" :> 4 @@
  "5" :> 5 @@ "6" :> 6 @@ "7" :> 7 @@ "8" :> 8 @@ "9" :> 9
HexDigit ==
  DecDigit @@
  "a" :> 10 @@ "b" :> 11 @@ "c" :> 12 @@ "d" :> 13 @@ "e" :> 14 @@ "f" :> 15 @@
  "A" :> 10 @@ "B" :> 11 @@ "C" :> 12 @@ "D" :> 13 @@ "E" :> 14 @@ "F" :> 15

DecNum[s \in STRING] ==
  IF Len(s) = 0 THEN 0
  ELSE 10 * DecNum[SubSeq(s, 1, Len(s) - 1)] + DecDigit[Char(s, Len(s))]

HexNum[s \in STRING] ==
  IF Len(s) = 0 THEN 0
  ELSE 16 * HexNum[SubSeq(s, 1, Len(s) - 1)] + HexDigit[Char(s, Len(s))]

(***************************************************************************)
(* inet_pton(3).  The result is <<1, address>> for a valid text, <<0, _>>  *)
(* for an invalid one and <<-1, _>> for an unsupported family.  An IPv4    *)
(* address is its 4 bytes, an IPv6 address its 8 sixteen-bit groups.       *)
(***************************************************************************)
NoAddress == <<>>

\* one decimal byte of a dotted quad: 1 to 3 digits, at most 255 and
\* without a leading zero
ValidOctet[t \in STRING] ==
  /\ Len(t) \in 1..3
  /\ \A i \in 1..Len(t) : Char(t, i) \in DOMAIN DecDigit
  /\ Len(t) > 1 => Char(t, 1) # "0"
  /\ DecNum[t] <= 255

ValidOctets[parts \in Seq(STRING)] ==
  /\ Len(parts) = 4
  /\ \A i \in 1..4 : ValidOctet[parts[i]]

ValidQuad[s \in STRING] == ValidOctets[Split[s, "."]]

Octets[parts \in Seq(STRING)] == [i \in 1..4 |-> DecNum[parts[i]]]

inet_pton4[s \in STRING] ==
  IF ValidQuad[s] THEN <<1, Octets[Split[s, "."]]>> ELSE <<0, NoAddress>>

\* one group of an IPv6 text: 1 to 4 hexadecimal digits
ValidGroup[t \in STRING] ==
  /\ Len(t) \in 1..4
  /\ \A i \in 1..Len(t) : Char(t, i) \in DOMAIN HexDigit

\* the two 16-bit groups of the 4 bytes of an embedded IPv4 address
QuadGroups[b \in Seq(Nat)] == <<b[1] * 256 + b[2], b[3] * 256 + b[4]>>

\* the 16-bit groups a token of an IPv6 text stands for
GroupsOf[t \in STRING] ==
  IF ValidGroup[t] THEN <<HexNum[t]>> ELSE QuadGroups[inet_pton4[t][2]]

\* the groups of the tokens from..to
GroupsFrom[toks \in Seq(STRING), from \in Nat, to \in Nat] ==
  IF from > to THEN <<>>
  ELSE GroupsOf[toks[from]] \o GroupsFrom[toks, from + 1, to]

\* a text may not be empty, nor begin or end with a single colon
BadEdge[s \in STRING] ==
  \/ Len(s) = 0
  \/ (Char(s, 1) = ":" /\ Take(s, 2) # "::")
  \/ (Char(s, Len(s)) = ":" /\ SubSeq(s, Len(s) - 1, Len(s)) # "::")

\* the outer colon of a leading or trailing "::" is dropped, which leaves
\* one empty token where the run of zero groups goes
Body[s \in STRING] ==
  IF s = "::" THEN ""
  ELSE SubSeq(s, IF Take(s, 2) = "::" THEN 2 ELSE 1,
                 IF SubSeq(s, Len(s) - 1, Len(s)) = "::"
                   THEN Len(s) - 1 ELSE Len(s))

\* the tokens are groups, at most one of them empty, the last one possibly
\* a dotted quad
WellFormed[toks \in Seq(STRING)] ==
  /\ Cardinality({i \in 1..Len(toks) : toks[i] = ""}) <= 1
  /\ \A i \in 1..Len(toks) :
       \/ toks[i] = ""
       \/ ValidGroup[toks[i]]
       \/ (i = Len(toks) /\ ValidQuad[toks[i]])

\* the position of the empty token, 0 if there is none
GapOf[toks \in Seq(STRING)] ==
  IF \E i \in 1..Len(toks) : toks[i] = ""
    THEN CHOOSE i \in 1..Len(toks) : toks[i] = ""
    ELSE 0

\* 8 groups, or fewer around a run of zero groups
Assemble[before \in Seq(Nat), after \in Seq(Nat), gap \in Nat] ==
  IF gap = 0
    THEN IF Len(before) = 8 THEN <<1, before>> ELSE <<0, NoAddress>>
    ELSE IF Len(before) + Len(after) <= 7
      THEN <<1, before
                \o [i \in 1..(8 - Len(before) - Len(after)) |-> 0]
                \o after>>
      ELSE <<0, NoAddress>>

Groups6[toks \in Seq(STRING), gap \in Nat] ==
  IF gap = 0
    THEN Assemble[GroupsFrom[toks, 1, Len(toks)], <<>>, 0]
    ELSE Assemble[GroupsFrom[toks, 1, gap - 1],
                  GroupsFrom[toks, gap + 1, Len(toks)], gap]

Tokens6[toks \in Seq(STRING)] ==
  IF WellFormed[toks] THEN Groups6[toks, GapOf[toks]] ELSE <<0, NoAddress>>

inet_pton6[s \in STRING] ==
  IF BadEdge[s] THEN <<0, NoAddress>> ELSE Tokens6[Split[Body[s], ":"]]

inet_pton(af, s) ==
  IF af = AF_INET THEN inet_pton4[s]
  ELSE IF af = AF_INET6 THEN inet_pton6[s]
  ELSE <<-1, NoAddress>>

(***************************************************************************)
(* JavaScript values, as the Node-API calls of `_open` see them            *)
(***************************************************************************)
JS(t, s, n) == [type |-> t, str |-> s, num |-> n]
JSNull == JS("null", "", 0)
JSUndefined == JS("undefined", "", 0)
JSFunction == JS("function", "", 0)
JSNumber(n) == JS("number", "", n)
JSString(s) == JS("string", s, 0)

napi_typeof(v) == v.type
napi_get_value_int32(v) == v.num

\* copies at most bufsize - 1 characters and reports how many it copied
napi_get_value_string_latin1(v, bufsize) == Take(v.str, bufsize - 1)

(***************************************************************************)
(* struct _open_data, after bzero()                                        *)
(***************************************************************************)
ZeroData ==
  [sa_family |-> 0, sockaddr_size |-> 0, sin_addr |-> NoAddress,
   interface_length |-> 0, interface |-> "",
   syscall |-> "NULL", errno |-> 0, fd |-> 0]

\* _throw_type_error, _throw_system_error and _napi_call_error throw only
\* when no exception is pending yet
Throw(pending, e) == IF pending = "none" THEN e ELSE pending

\* a step of `_open`: `ret` says that `_open` has returned NULL
Step(ret, exc, d) == [ret |-> ret, exc |-> exc, data |-> d]

\* the socket family without the `else` of lines 392-395
SocketFamily_Mutant(v, nf, d) ==
  IF nf = 373 THEN Step(TRUE, "napi", d)
  ELSE IF napi_typeof(v) # "number" THEN Step(TRUE, "family_type", d)
  ELSE IF nf = 382 THEN Step(TRUE, "napi", d)
  ELSE IF napi_get_value_int32(v) = AF_INET
    THEN Step(FALSE, "none",
              [d EXCEPT !.sa_family = AF_INET,
                        !.sockaddr_size = SizeofSockaddrIn])
  ELSE IF napi_get_value_int32(v) = AF_INET6
    THEN Step(FALSE, "none",
              [d EXCEPT !.sa_family = AF_INET6,
                        !.sockaddr_size = SizeofSockaddrIn6])
  ELSE Step(FALSE, "none", d)

\* lines 372-396: the socket family
SocketFamily(v, nf, d) ==
  IF nf = 373 THEN Step(TRUE, "napi", d)
  ELSE IF napi_typeof(v) # "number" THEN Step(TRUE, "family_type", d)
  ELSE IF nf = 382 THEN Step(TRUE, "napi", d)
  ELSE IF napi_get_value_int32(v) = AF_INET
    THEN Step(FALSE, "none",
              [d EXCEPT !.sa_family = AF_INET,
                        !.sockaddr_size = SizeofSockaddrIn])
  ELSE IF napi_get_value_int32(v) = AF_INET6
    THEN Step(FALSE, "none",
              [d EXCEPT !.sa_family = AF_INET6,
                        !.sockaddr_size = SizeofSockaddrIn6])
  ELSE Step(TRUE, "family", d)

\* line 415: the length test of the from address
FromAddressTooLong(size) == size > FromAddressMaxLength

\* lines 419-434: the result of inet_pton, with exception exc pending
FromAddressParsed(exc, result, d) ==
  IF result[1] < 0 THEN Step(TRUE, Throw(exc, "inet_pton"), d)
  ELSE IF result[1] = 0 THEN Step(TRUE, Throw(exc, "address_invalid"), d)
  ELSE Step(FALSE, exc, [d EXCEPT !.sin_addr = result[2]])

\* lines 407-420: the buffer of the from address.  The length test throws
\* but does not return, so inet_pton still sees the (truncated) buffer.
FromAddressBuffer(buffer, d) ==
  FromAddressParsed(
    IF FromAddressTooLong(Len(buffer)) THEN "address_long" ELSE "none",
    inet_pton(d.sa_family, buffer), d)

\* the from address without the assignment of line 401
FromAddress_Mutant(v, nf, d) ==
  IF nf = 399 THEN Step(TRUE, "napi", d)
  ELSE IF napi_typeof(v) \in {"null", "undefined"} THEN Step(FALSE, "none", d)
  ELSE IF napi_typeof(v) # "string" THEN Step(TRUE, "address_type", d)
  ELSE IF nf = 412 THEN Step(TRUE, "napi", d)
  ELSE FromAddressBuffer(
         napi_get_value_string_latin1(v, FromAddressBufferSize), d)

\* lines 398-435: the address to bind to
FromAddress(v, nf, d) ==
  IF nf = 399 THEN Step(TRUE, "napi", d)
  ELSE IF napi_typeof(v) \in {"null", "undefined"}
    THEN Step(FALSE, "none", [d EXCEPT !.sockaddr_size = 0])
  ELSE IF napi_typeof(v) # "string" THEN Step(TRUE, "address_type", d)
  ELSE IF nf = 412 THEN Step(TRUE, "napi", d)
  ELSE FromAddressBuffer(
         napi_get_value_string_latin1(v, FromAddressBufferSize), d)

\* the length test with the terminator counted in the limit
InterfaceTooLong_Mutant(size) == size >= IFNAMSIZ

\* line 454: the length test of the interface name
InterfaceTooLong(size) == size > IFNAMSIZ

\* lines 453-461: the buffer of the interface name
SourceInterfaceBuffer(buffer, pending, d) ==
  IF InterfaceTooLong(Len(buffer))
    THEN Step(TRUE, Throw(pending, "interface_long"), d)
    ELSE Step(FALSE, pending,
              [d EXCEPT !.interface = buffer,
                        !.interface_length = Len(buffer)])

\* lines 437-462: the interface to bind to
SourceInterface(v, nf, pending, d) ==
  IF nf = 438 THEN Step(TRUE, Throw(pending, "napi"), d)
  ELSE IF napi_typeof(v) \in {"null", "undefined"}
    THEN Step(FALSE, pending, [d EXCEPT !.interface_length = 0])
  ELSE IF napi_typeof(v) # "string"
    THEN Step(TRUE, Throw(pending, "interface_type"), d)
  ELSE IF nf = 451 THEN Step(TRUE, Throw(pending, "napi"), d)
  ELSE SourceInterfaceBuffer(
         napi_get_value_string_latin1(v, IFNAMSIZ + 2), pending, d)

\* what a call of `_open` leaves behind: the exception it throws ("none" if
\* it returns normally), how far it got in acquiring resources ("none",
\* "ref": callback reference; "malloc": and the record; "work": and the
\* async work; "queued": and the work is queued) and the record
OpenResult(exc, stage, d) == [exception |-> exc, stage |-> stage, data |-> d]

\* lines 464-498: the callback, its reference, the record and the async work
Callback(v, nf, pending, d) ==
  IF nf = 465 THEN OpenResult(Throw(pending, "napi"), "none", d)
  ELSE IF napi_typeof(v) # "function"
    THEN OpenResult(Throw(pending, "callback"), "none", d)
  ELSE IF nf = 473 THEN OpenResult(Throw(pending, "napi"), "none", d)
  ELSE IF nf \in {479, 480} THEN OpenResult(Throw(pending, "napi"), "ref", d)
  ELSE IF nf = 488 THEN OpenResult(Throw(pending, "napi"), "malloc", d)
  ELSE IF nf = 498 THEN OpenResult(Throw(pending, "napi"), "work", d)
  ELSE OpenResult(pending, "queued", d)

\* `_open` from line 464 on, after step s of the interface
OpenCallback(a, nf, s) ==
  IF s.ret THEN OpenResult(s.exc, "none", s.data)
  ELSE Callback(a.callback, nf, s.exc, s.data)

\* `_open` from line 437 on, after step s of the from address
OpenInterface(a, nf, s) ==
  IF s.ret THEN OpenResult(s.exc, "none", s.data)
  ELSE OpenCallback(a, nf, SourceInterface(a.source_interface, nf, s.exc, s.data))

\* `_open` from line 398 on, after step s of the socket family
OpenAddress(a, nf, s) ==
  IF s.ret THEN OpenResult(s.exc, "none", s.data)
  ELSE OpenInterface(a, nf, FromAddress(a.from_address, nf, s.data))

\* lines 347-502: `_open`, called with `a` and with the napi_ call at line
\* nf failing (0: none fails)
open(a, nf) ==
  IF nf = 360 THEN OpenResult("napi", "none", ZeroData)
  ELSE IF a.argc # 4 THEN OpenResult("argc", "none", ZeroData)
  ELSE OpenAddress(a, nf, SocketFamily(a.socket_family, nf, ZeroData))

\* the napi_ calls of `_open`, by line
OpenNapiCalls == {360, 373, 382, 399, 412, 438, 451, 465, 473, 479, 480, 488, 498}

(***************************************************************************)
(* The arguments the calls of `open` are drawn from                        *)
(***************************************************************************)
\* a valid IPv6 text of 42 characters whose first 41 characters are a valid
\* text too, of another address (...1.1 instead of ...1.10)
Address42 == "0000:0000:0000:0000:0000:ffff:192.168.1.10"
Name16 == "abcdefghijklmnop"
Name17 == "abcdefghijklmnopq"
Name19 == "abcdefghijklmnopqrs"

Args(n, f, a, s, c) ==
  [argc |-> n, socket_family |-> f, from_address |-> a,
   source_interface |-> s, callback |-> c]

OpenArgs ==
  {Args(4, JSNumber(AF_INET), JSNull, JSNull, JSFunction),
   Args(4, JSNumber(AF_INET), JSString("192.0.2.5"), JSString("eth0"), JSFunction),
   Args(4, JSNumber(AF_INET6), JSUndefined, JSString(Name16), JSFunction),
   Args(4, JSNumber(AF_INET6), JSString("fe80::1"), JSUndefined, JSFunction),
   Args(4, JSNumber(AF_INET6), JSString(Address42), JSNull, JSFunction),
   Args(4, JSNumber(AF_INET6), JSNull, JSString(""), JSFunction),
   Args(3, JSNumber(AF_INET), JSNull, JSNull, JSUndefined),
   Args(4, JSString("2"), JSNull, JSNull, JSFunction),
   Args(4, JSNumber(12345), JSNull, JSNull, JSFunction),
   Args(4, JSNumber(AF_INET), JSNumber(5), JSNull, JSFunction),
   Args(4, JSNumber(AF_INET), JSString("999.999.999.999"), JSNull, JSFunction),
   Args(4, JSNumber(AF_INET), JSString(Address42), JSNull, JSFunction),
   Args(4, JSNumber(AF_INET), JSNull, JSNumber(7), JSFunction),
   Args(4, JSNumber(AF_INET), JSNull, JSString(Name17), JSFunction),
   Args(4, JSNumber(AF_INET6), JSNull, JSString(Name19), JSFunction),
   Args(4, JSNumber(AF_INET), JSNull, JSNull, JSNull)}

NoArgs == Args(0, JSUndefined, JSUndefined, JSUndefined, JSUndefined)

\* `_open` on every input of the model
OpenTable == [a \in OpenArgs, nf \in OpenNapiCalls \cup {0} |-> open(a, nf)]

(***************************************************************************)
(* State                                                                   *)
(***************************************************************************)
VARIABLES
  platform,   \* the build: "linux" or "apple"
  fdtab,      \* the descriptor table of the process: whether a descriptor
              \* is open, and the call whose socket() returned it (0 for
              \* the descriptors open from the start)
  args,       \* args[i]: the arguments of call i
  pc,         \* pc[i]: "idle" (not called yet), "returned" (`_open` returned
              \* without queuing), "queued", "interface", "bind" (the
              \* executor is before that step), "executed", "completed"
  exception,  \* exception[i]: what call i of `open` threw, or "none"
  data,       \* data[i]: the struct _open_data of call i
  heap,       \* heap[i], ref[i], work[i]: the malloc'ed record, the callback
  ref,        \* reference and the async work of call i:
  work,       \* "none", "live" or "released"
  syscalls,   \* syscalls[i]: the system calls made for call i, in order
  status,     \* status[i]: the napi_status given to `_open_complete`
  handler,    \* handler[i]: the invocations of the callback of call i
  uncaught,   \* uncaught[i]: the exception `_open_complete` left pending
  steps       \* steps[i]: what `_open_complete` did for call i, in order:
              \* "free", "napi_call_function", "napi_delete_reference",
              \* "napi_delete_async_work"

vars == <<platform, fdtab, args, pc, exception, data, heap, ref, work,
          syscalls, status, handler, uncaught, steps>>

\* the descriptors open when the addon is loaded: stdin, stdout and stderr,
\* or none (a daemon that closed them)
StdDescriptors == {{0, 1, 2}, {}}

Init ==
  /\ platform \in {"linux", "apple"}
  /\ \E std \in StdDescriptors :
       fdtab = [fd \in Fds |-> [open |-> fd \in std, owner |-> 0]]
  /\ args = [i \in Calls |-> NoArgs]
  /\ pc = [i \in Calls |-> "idle"]
  /\ exception = [i \in Calls |-> "none"]
  /\ data = [i \in Calls |-> ZeroData]
  /\ heap = [i \in Calls |-> "none"]
  /\ ref = [i \in Calls |-> "none"]
  /\ work = [i \in Calls |-> "none"]
  /\ syscalls = [i \in Calls |-> <<>>]
  /\ status = [i \in Calls |-> "none"]
  /\ handler = [i \in Calls |-> <<>>]
  /\ uncaught = [i \in Calls |-> "none"]
  /\ steps = [i \in Calls |-> <<>>]

(***************************************************************************)
(* `open`, on the JavaScript thread                                        *)
(***************************************************************************)
Open(i) ==
  /\ pc[i] = "idle"
  /\ \A j \in 1..(i - 1) : pc[j] # "idle"
  /\ \E a \in OpenArgs, nf \in OpenNapiCalls \cup {0} :
       LET r == OpenTable[a, nf]
       IN  /\ args' = [args EXCEPT ![i] = a]
           /\ exception' = [exception EXCEPT ![i] = r.exception]
           \* the record is on the heap from malloc() on
           /\ data' = [data EXCEPT ![i] =
                         IF r.stage \in {"malloc", "work", "queued"}
                           THEN r.data ELSE ZeroData]
           /\ pc' = [pc EXCEPT ![i] =
                       IF r.stage = "queued" THEN "queued" ELSE "returned"]
           /\ ref' = [ref EXCEPT ![i] =
                        IF r.stage = "none" THEN "none" ELSE "live"]
           /\ heap' = [heap EXCEPT ![i] =
                         IF r.stage \in {"malloc", "work", "queued"}
                           THEN "live" ELSE "none"]
           /\ work' = [work EXCEPT ![i] =
                         IF r.stage \in {"work", "queued"}
                           THEN "live" ELSE "none"]
  /\ UNCHANGED <<platform, fdtab, syscalls, status, handler, uncaught, steps>>

(***************************************************************************)
(* The executor, on a worker thread                                        *)
(***************************************************************************)
\* the errno values the failing system calls leave
SocketErrnos == {1}
SetsockoptErrnos == {19}
NametoindexErrnos == {6}
BindErrnos == {99}

\* a system call in the log of a request
Syscall(name, fd, arg, result) ==
  [name |-> name, fd |-> fd, arg |-> arg, result |-> result]

\* _open_execute_fail without the assignment of line 215
open_execute_fail_NoName(d, syscall, errno) ==
  [data |-> [d EXCEPT !.errno = errno, !.fd = -1],
   closes |-> IF d.fd > 1 THEN <<>> ELSE <<d.fd>>]

\* _open_execute_fail without the assignment of line 217
open_execute_fail_KeepFd(d, syscall, errno) ==
  [data |-> [d EXCEPT !.syscall = syscall, !.errno = errno],
   closes |-> IF d.fd > 1 THEN <<>> ELSE <<d.fd>>]

\* _open_execute_fail with the test of line 219 the other way round
open_execute_fail_Inverted(d, syscall, errno) ==
  [data |-> [d EXCEPT !.syscall = syscall, !.errno = errno, !.fd = -1],
   closes |-> IF d.fd > 1 THEN <<d.fd>> ELSE <<>>]

\* lines 207-222: _open_execute_fail; `closes` are the descriptors it
\* passes to close()
open_execute_fail(d, syscall, errno) ==
  [data |-> [d EXCEPT !.syscall = syscall, !.errno = errno, !.fd = -1],
   closes |-> IF d.fd > 1 THEN <<>> ELSE <<d.fd>>]

\* close(2) on the descriptor table
Close(tab, fd) ==
  IF fd \in Fds THEN [tab EXCEPT ![fd] = [open |-> FALSE, owner |-> 0]] ELSE tab

\* the cleanup closing the highest open descriptor of the process instead
\* of the one of its own record
FailTab_Mutant(tab, f) ==
  IF Len(f.closes) = 0 \/ \A fd \in Fds : ~tab[fd].open THEN tab
  ELSE Close(tab, CHOOSE fd \in Fds :
                    tab[fd].open /\ \A g \in Fds : tab[g].open => g <= fd)

\* the log entries and the table after _open_execute_fail
FailLog(f) == [k \in 1..Len(f.closes) |-> Syscall("close", f.closes[k], "", 0)]
FailTab(tab, f) == IF Len(f.closes) = 0 THEN tab ELSE Close(tab, f.closes[1])

\* the executor binding an address whether or not one was requested
AfterSocket_Mutant(d) ==
  IF d.interface_length > 0 THEN "interface" ELSE "bind"

\* where the executor goes after socket() has succeeded, and after the
\* interface has been bound
AfterSocket(d) ==
  IF d.interface_length > 0 THEN "interface"
  ELSE IF d.sockaddr_size > 0 THEN "bind" ELSE "executed"
AfterInterface(d) == IF d.sockaddr_size > 0 THEN "bind" ELSE "executed"

\* socket() handing out the lowest descriptor, in use or not
LowestFree_Mutant(tab) == CHOOSE fd \in Fds : \A g \in Fds : fd <= g

FreeFds(tab) == {fd \in Fds : ~tab[fd].open}
LowestFree(tab) == CHOOSE fd \in FreeFds(tab) : \A g \in FreeFds(tab) : fd <= g

\* the executor going on to bind() after a failure
ExecFail_Mutant(i, d, log, syscall, errno) ==
  LET f == open_execute_fail(d, syscall, errno)
  IN  /\ data' = [data EXCEPT ![i] = f.data]
      /\ fdtab' = FailTab(fdtab, f)
      /\ syscalls' = [syscalls EXCEPT ![i] = @ \o log \o FailLog(f)]
      /\ pc' = [pc EXCEPT ![i] =
                  IF syscall # "bind" /\ d.sockaddr_size > 0
                    THEN "bind" ELSE "executed"]

\* the executor returns through _open_execute_fail, called on record d after
\* the system calls of `log`
ExecFail(i, d, log, syscall, errno) ==
  LET f == open_execute_fail(d, syscall, errno)
  IN  /\ data' = [data EXCEPT ![i] = f.data]
      /\ fdtab' = FailTab(fdtab, f)
      /\ syscalls' = [syscalls EXCEPT ![i] = @ \o log \o FailLog(f)]
      /\ pc' = [pc EXCEPT ![i] = "executed"]

\* lines 234-249: the protocol of the family and socket()
ExecSocket(i) ==
  /\ pc[i] = "queued"
  /\ IF data[i].sa_family \notin {AF_INET, AF_INET6}
       THEN /\ data' = [data EXCEPT ![i].errno = EAFNOSUPPORT, ![i].fd = -1]
            /\ pc' = [pc EXCEPT ![i] = "executed"]
            /\ UNCHANGED <<fdtab, syscalls>>
       ELSE \/ /\ FreeFds(fdtab) # {}
               /\ LET fd == LowestFree(fdtab)
                  IN  /\ data' = [data EXCEPT ![i].fd = fd]
                      /\ fdtab' = [fdtab EXCEPT ![fd] = [open |-> TRUE, owner |-> i]]
                      /\ syscalls' = [syscalls EXCEPT ![i] =
                           Append(@, Syscall("socket", -1, "", fd))]
                      /\ pc' = [pc EXCEPT ![i] = AfterSocket(data[i])]
            \/ \E e \in SocketErrnos :
                 ExecFail(i, [data[i] EXCEPT !.fd = -1],
                          <<Syscall("socket", -1, "", -1)>>, "socket", e)
  /\ UNCHANGED <<platform, args, exception, heap, ref, work, status, handler,
                 uncaught, steps>>

\* lines 251-286: the interface, by name on Linux and by index on macOS
ExecInterface(i) ==
  /\ pc[i] = "interface"
  /\ LET d == data[i]
         byname == Syscall("setsockopt", d.fd, d.interface, 0)
         index == Syscall("if_nametoindex", -1, d.interface, 1)
     IN  \/ /\ platform = "linux"
            /\ \/ /\ syscalls' = [syscalls EXCEPT ![i] = Append(@, byname)]
                  /\ pc' = [pc EXCEPT ![i] = AfterInterface(d)]
                  /\ UNCHANGED <<data, fdtab>>
               \/ \E e \in SetsockoptErrnos :
                    ExecFail(i, d, <<[byname EXCEPT !.result = -1]>>, "setsockopt", e)
         \/ /\ platform = "apple"
            /\ \/ /\ syscalls' = [syscalls EXCEPT ![i] = @ \o <<index, byname>>]
                  /\ pc' = [pc EXCEPT ![i] = AfterInterface(d)]
                  /\ UNCHANGED <<data, fdtab>>
               \/ \E e \in NametoindexErrnos :
                    ExecFail(i, d, <<[index EXCEPT !.result = 0]>>, "if_nametoindex", e)
               \/ \E e \in SetsockoptErrnos :
                    ExecFail(i, d, <<index, [byname EXCEPT !.result = -1]>>, "setsockopt", e)
  /\ UNCHANGED <<platform, args, exception, heap, ref, work, status, handler,
                 uncaught, steps>>

\* the executor returning from a failed bind() without _open_execute_fail
ExecBind_Mutant(i) ==
  /\ pc[i] = "bind"
  /\ LET d == data[i]
         bind == Syscall("bind", d.fd, d.sin_addr, 0)
     IN  /\ \/ syscalls' = [syscalls EXCEPT ![i] = Append(@, bind)]
            \/ syscalls' = [syscalls EXCEPT ![i] =
                              Append(@, [bind EXCEPT !.result = -1])]
         /\ pc' = [pc EXCEPT ![i] = "executed"]
         /\ UNCHANGED <<data, fdtab>>
  /\ UNCHANGED <<platform, args, exception, heap, ref, work, status, handler,
                 uncaught, steps>>

\* lines 288-292: the from address
ExecBind(i) ==
  /\ pc[i] = "bind"
  /\ LET d == data[i]
         bind == Syscall("bind", d.fd, d.sin_addr, 0)
     IN  \/ /\ syscalls' = [syscalls EXCEPT ![i] = Append(@, bind)]
            /\ pc' = [pc EXCEPT ![i] = "executed"]
            /\ UNCHANGED <<data, fdtab>>
         \/ \E e \in BindErrnos :
              ExecFail(i, d, <<[bind EXCEPT !.result = -1]>>, "bind", e)
  /\ UNCHANGED <<platform, args, exception, heap, ref, work, status, handler,
                 uncaught, steps>>

(***************************************************************************)
(* `_open_complete`, on the JavaScript thread                              *)
(***************************************************************************)
JSSystemError(syscall, errno) == JS("system_error", syscall, errno)
JSNapiError(st) == JS("napi_error", st, 0)
\* a NULL napi_value
NullValue == JS("NULL", "", 0)

\* the status the runtime hands to the complete callback
Statuses == {"napi_ok", "napi_generic_failure"}

\* the napi_ calls of `_open_complete`, by line; 325 stands for the calls
\* inside _system_error
CompleteNapiCalls == {310, 311, 321, 323, 325, 327, 332, 336, 337, 340, 341}

\* the three branches of lines 316-328 as independent tests: the
\* descriptor is passed along with the error of a failed dispatch
CallbackArguments_Mutant(st, d, nf) ==
  IF nf \in {310, 311, 321, 323, 327}
    THEN [ret |-> TRUE, argv |-> <<NullValue, NullValue>>]
    ELSE [ret |-> FALSE,
          argv |-> <<IF st # "napi_ok" THEN JSNapiError(st)
                     ELSE IF d.fd < 0 THEN JSSystemError(d.syscall, d.errno)
                     ELSE JSNull,
                     IF d.fd >= 0 THEN JSNumber(d.fd) ELSE JSUndefined>>]

\* the descriptor test of line 324 taking descriptor 0 for a failure
CallbackArguments_Mutant0(st, d, nf) ==
  IF nf \in {310, 311, 321, 323, 327}
    THEN [ret |-> TRUE, argv |-> <<NullValue, NullValue>>]
  ELSE IF st # "napi_ok"
    THEN [ret |-> FALSE, argv |-> <<JSNapiError(st), JSUndefined>>]
  ELSE IF d.fd <= 0
    THEN [ret |-> FALSE,
          argv |-> <<JSSystemError(d.syscall, d.errno), JSUndefined>>]
    ELSE [ret |-> FALSE, argv |-> <<JSNull, JSNumber(d.fd)>>]

\* lines 308-328: the two arguments of the callback; `ret` says that
\* `_open_complete` has returned before it had them
CallbackArguments(st, d, nf) ==
  IF nf \in {310, 311} THEN [ret |-> TRUE, argv |-> <<NullValue, NullValue>>]
  ELSE IF st # "napi_ok"
    THEN IF nf \in {321, 323}
           THEN [ret |-> TRUE, argv |-> <<JSNull, JSUndefined>>]
           ELSE [ret |-> FALSE, argv |-> <<JSNapiError(st), JSUndefined>>]
  ELSE IF d.fd < 0
    THEN IF nf = 325
           THEN [ret |-> FALSE, argv |-> <<NullValue, JSUndefined>>]
           ELSE [ret |-> FALSE,
                 argv |-> <<JSSystemError(d.syscall, d.errno), JSUndefined>>]
  ELSE IF nf = 327
    THEN [ret |-> TRUE, argv |-> <<JSNull, JSUndefined>>]
    ELSE [ret |-> FALSE, argv |-> <<JSNull, JSNumber(d.fd)>>]

\* what `_open_complete` does after free(): the invocations of the callback,
\* the callback reference, the async work and the exception left pending
Completion(inv, r, w, exc) ==
  [invoked |-> inv, ref |-> r, work |-> w, exc |-> exc]

\* lines 298-342: `_open_complete` with status st on record d, the napi_
\* call at line nf failing (0: none) and the callback throwing or not
open_complete(st, d, nf, throws) ==
  LET a == CallbackArguments(st, d, nf)
      call == <<[error |-> a.argv[1], fd |-> a.argv[2]]>>
  IN  IF a.ret \/ nf \in {332, 336}
        THEN Completion(<<>>, "live", "live", "napi")
      \* napi_call_function does not run the callback while the exception
      \* of a failed _system_error is pending, nor when it fails itself
      ELSE IF a.argv[1] = NullValue \/ nf = 337
        THEN Completion(<<>>, "live", "live", "napi")
      ELSE IF throws THEN Completion(call, "live", "live", "handler")
      ELSE IF nf = 340 THEN Completion(call, "live", "live", "napi")
      ELSE IF nf = 341 THEN Completion(call, "released", "live", "napi")
      ELSE Completion(call, "released", "released", "none")

\* free() moved behind the invocation of the callback
CompletionSteps_Mutant(c) ==
  (IF c.invoked # <<>> THEN <<"napi_call_function">> ELSE <<>>)
    \o <<"free">>
    \o (IF c.ref = "released" THEN <<"napi_delete_reference">> ELSE <<>>)
    \o (IF c.work = "released" THEN <<"napi_delete_async_work">> ELSE <<>>)

\* lines 306, 337, 340 and 341 in the order of the code: free() comes
\* first, then the calls that completion c got through
CompletionSteps(c) ==
  <<"free">>
    \o (IF c.invoked # <<>> THEN <<"napi_call_function">> ELSE <<>>)
    \o (IF c.ref = "released" THEN <<"napi_delete_reference">> ELSE <<>>)
    \o (IF c.work = "released" THEN <<"napi_delete_async_work">> ELSE <<>>)

Complete(i) ==
  /\ pc[i] = "executed"
  /\ \E st \in Statuses, nf \in CompleteNapiCalls \cup {0}, throws \in BOOLEAN :
       LET c == open_complete(st, data[i], nf, throws)
       IN  /\ status' = [status EXCEPT ![i] = st]
           /\ handler' = [handler EXCEPT ![i] = @ \o c.invoked]
           /\ ref' = [ref EXCEPT ![i] = c.ref]
           /\ work' = [work EXCEPT ![i] = c.work]
           /\ uncaught' = [uncaught EXCEPT ![i] = c.exc]
           /\ steps' = [steps EXCEPT ![i] = CompletionSteps(c)]
  /\ heap' = [heap EXCEPT ![i] = "released"]
  /\ pc' = [pc EXCEPT ![i] = "completed"]
  /\ UNCHANGED <<platform, fdtab, args, exception, data, syscalls>>

Next ==
  \E i \in Calls :
    \/ Open(i)
    \/ ExecSocket(i)
    \/ ExecInterface(i)
    \/ ExecBind(i)
    \/ Complete(i)

Spec == Init /\ [][Next]_vars

(***************************************************************************)
(* Vocabulary of the properties                                            *)
(***************************************************************************)
\* the exceptions `_open` throws for a bad argument
ArgumentErrors ==
  {"argc", "family_type", "family", "address_type", "address_long",
   "address_invalid", "inet_pton", "interface_type", "interface_long",
   "callback"}

Called(i) == pc[i] # "idle"
\* the async work of call i was queued
Queued(i) == pc[i] \notin {"idle", "returned"}
\* the executor of call i has returned
Executed(i) == pc[i] \in {"executed", "completed"}

Absent(v) == v.type \in {"null", "undefined"}
HasText(v) == v.type = "string"

\* the descriptors the socket() calls of request i returned
SocketsOf(i) ==
  {syscalls[i][k].result : k \in {n \in 1..Len(syscalls[i]) :
      syscalls[i][n].name = "socket" /\ syscalls[i][n].result >= 0}}

\* the system calls of request i of the given names
CallsOf(i, names) ==
  {k \in 1..Len(syscalls[i]) : syscalls[i][k].name \in names}

\* the descriptors of request i that are open
OpenDescriptorsOf(i) == {fd \in Fds : fdtab[fd].open /\ fdtab[fd].owner = i}

\* the invocation that hands over the outcome recorded in record d
Outcome(d) ==
  IF d.fd >= 0
    THEN [error |-> JSNull, fd |-> JSNumber(d.fd)]
    ELSE [error |-> JSSystemError(d.syscall, d.errno), fd |-> JSUndefined]

\* the address each argument text stands for, read in full
FullAddress ==
  [a \in OpenArgs |->
    inet_pton(napi_get_value_int32(a.socket_family), a.from_address.str)]

(***************************************************************************)
(* C1: for every request that open has queued, the completion handler is   *)
(* invoked exactly once: once the completion step has run, the handler has *)
(* been invoked one time, whatever the executor's outcome.                 *)
(***************************************************************************)
C1_HandlerExactlyOnce ==
  \A i \in Calls : pc[i] = "completed" => Len(handler[i]) = 1

(***************************************************************************)
(* C2: a request whose recorded outcome is a failure holds no open socket  *)
(* descriptor once its executor has returned, whatever the number of the   *)
(* descriptor socket() gave it.                                            *)
(***************************************************************************)
C2_NoDescriptorAfterFailure ==
  \A i \in Calls :
    (Executed(i) /\ data[i].fd < 0) => OpenDescriptorsOf(i) = {}

(***************************************************************************)
(* C3: when open throws an argument error, no async work was created or    *)
(* queued by that call, so that its executor never starts.                 *)
(***************************************************************************)
C3_ArgumentErrorQueuesNothing ==
  \A i \in Calls :
    exception[i] \in ArgumentErrors =>
      /\ pc[i] = "returned"
      /\ work[i] = "none"
      /\ syscalls[i] = <<>>

(***************************************************************************)
(* C4: when open throws an argument error, the handler of that call is     *)
(* never invoked.                                                          *)
(***************************************************************************)
C4_ArgumentErrorNeverCompletes ==
  \A i \in Calls : exception[i] \in ArgumentErrors => handler[i] = <<>>

(***************************************************************************)
(* C5: a call whose from address is a text of more than 40 characters is   *)
(* rejected and performs no socket(), setsockopt() or bind().              *)
(***************************************************************************)
C5_LongAddressNoSyscall ==
  \A i \in Calls :
    (Called(i) /\ HasText(args[i].from_address)
       /\ Len(args[i].from_address.str) > FromAddressMaxLength) =>
      /\ exception[i] # "none"
      /\ syscalls[i] = <<>>

(***************************************************************************)
(* C6: an interface name longer than IFNAMSIZ, of any length, makes open   *)
(* throw without queuing anything and without any system call; a name of   *)
(* IFNAMSIZ characters or fewer is never refused for its length, and the   *)
(* request, when it is queued, carries that name and its length.           *)
(***************************************************************************)
C6_InterfaceNameLimit ==
  \A i \in Calls :
    (Called(i) /\ args[i].argc = 4 /\ HasText(args[i].source_interface)) =>
      IF Len(args[i].source_interface.str) > IFNAMSIZ
        THEN /\ exception[i] # "none"
             /\ pc[i] = "returned"
             /\ work[i] = "none"
             /\ syscalls[i] = <<>>
        ELSE /\ exception[i] # "interface_long"
             /\ exception[i] = "none" => Queued(i)
             /\ Queued(i) =>
                  /\ data[i].interface = args[i].source_interface.str
                  /\ data[i].interface_length = Len(args[i].source_interface.str)

\* a request is queued with a name of exactly IFNAMSIZ characters, and a
\* call with a name longer than the conversion buffer was refused
C6_Witness ==
  \E i, j \in Calls :
    /\ Queued(i)
    /\ Len(args[i].source_interface.str) = IFNAMSIZ
    /\ data[i].interface_length = IFNAMSIZ
    /\ Len(args[j].source_interface.str) > IFNAMSIZ + 2
    /\ exception[j] = "interface_long"

(***************************************************************************)
(* C7: every invocation of the handler has exactly one slot populated: an  *)
(* error and no descriptor, or no error and a descriptor >= 0; after a     *)
(* dispatch status other than napi_ok it is the error.                     *)
(***************************************************************************)
C7_ExactlyOneSlot ==
  \A i \in Calls : \A k \in 1..Len(handler[i]) :
    LET c == handler[i][k]
    IN  /\ \/ /\ c.error.type \in {"system_error", "napi_error"}
              /\ c.fd.type = "undefined"
           \/ /\ c.error.type = "null"
              /\ c.fd.type = "number"
              /\ c.fd.num >= 0
        /\ status[i] # "napi_ok" =>
             (c.error.type = "napi_error" /\ c.fd.type = "undefined")

\* the handler was invoked after a failed dispatch of a request whose
\* record holds a descriptor, and another request delivered its descriptor
C7_Witness ==
  \E i, j \in Calls :
    /\ Len(handler[i]) = 1
    /\ status[i] # "napi_ok"
    /\ data[i].fd >= 0
    /\ Len(handler[j]) = 1
    /\ handler[j][1].fd.type = "number"

(***************************************************************************)
(* C8: a request with a valid family, no from address and no interface,    *)
(* whose socket() succeeded, ends with its handler invoked with no error   *)
(* and the descriptor of socket(), and with no bind call made.             *)
(***************************************************************************)
PlainRequest(i) ==
  /\ Queued(i)
  /\ Absent(args[i].from_address)
  /\ Absent(args[i].source_interface)
  /\ SocketsOf(i) # {}

C8_PlainRequestSucceeds ==
  \A i \in Calls :
    (PlainRequest(i) /\ pc[i] = "completed") =>
      /\ CallsOf(i, {"setsockopt", "if_nametoindex", "bind"}) = {}
      /\ Len(handler[i]) = 1
      /\ handler[i][1].error = JSNull
      /\ handler[i][1].fd.type = "number"
      /\ handler[i][1].fd.num \in SocketsOf(i)

\* C8 as amended: for such a request the executor makes no call but
\* socket() and records the descriptor socket() returned; the handler is
\* invoked at most once, and when it is invoked after a dispatch status of
\* napi_ok it receives no error and that descriptor.
C8_PlainRequestOutcome ==
  \A i \in Calls :
    PlainRequest(i) =>
      /\ Len(syscalls[i]) = 1
      /\ SocketsOf(i) = {data[i].fd}
      /\ Len(handler[i]) <= 1
      /\ (Len(handler[i]) = 1 /\ status[i] = "napi_ok") =>
           handler[i][1] = [error |-> JSNull, fd |-> JSNumber(data[i].fd)]

C8_Witness ==
  \E i \in Calls :
    /\ PlainRequest(i)
    /\ pc[i] = "completed"
    /\ status[i] = "napi_ok"
    /\ handler[i] = <<[error |-> JSNull, fd |-> JSNumber(data[i].fd)]>>

(***************************************************************************)
(* C9: a request that supplied a from address and completed with a         *)
(* descriptor had its socket bound to the address of the caller's text.    *)
(***************************************************************************)
C9_BoundToSuppliedAddress ==
  \A i \in Calls :
    (HasText(args[i].from_address) /\ Len(handler[i]) > 0
       /\ handler[i][1].fd.type = "number") =>
      /\ FullAddress[args[i]][1] = 1
      /\ \E k \in CallsOf(i, {"bind"}) :
           /\ syscalls[i][k].result = 0
           /\ syscalls[i][k].arg = FullAddress[args[i]][2]

(***************************************************************************)
(* C10: the handler of a request is invoked only once the executor of the  *)
(* request has returned, and receives the outcome the executor recorded.   *)
(***************************************************************************)
C10_CompletionFollowsExecutor ==
  \A i \in Calls :
    handler[i] # <<>> =>
      /\ pc[i] = "completed"
      /\ handler[i] = <<Outcome(data[i])>>

\* C10 as amended: the handler is invoked only once the executor has
\* returned; after a dispatch status of napi_ok it receives the outcome the
\* executor recorded, and after any other status an error made from that
\* status, without the recorded outcome.
C10_CompletionAfterExecutor ==
  \A i \in Calls :
    handler[i] # <<>> =>
      /\ pc[i] = "completed"
      /\ handler[i] =
           IF status[i] = "napi_ok"
             THEN <<Outcome(data[i])>>
             ELSE <<[error |-> JSNapiError(status[i]), fd |-> JSUndefined]>>

\* a failure the executor recorded was handed to the handler, and another
\* request was completed after a failed dispatch
C10_Witness ==
  \E i, j \in Calls :
    /\ pc[i] = "completed"
    /\ status[i] = "napi_ok"
    /\ data[i].fd < 0
    /\ handler[i] = <<Outcome(data[i])>>
    /\ status[j] # "napi_ok"
    /\ Len(handler[j]) = 1

\* the positions of step e among the steps of the completion of call i
StepsOf(i, e) == {k \in 1..Len(steps[i]) : steps[i][k] = e}

(***************************************************************************)
(* C11: for every completed request the order is handler invoked, then     *)
(* record released, then handler reference released.                       *)
(***************************************************************************)
C11_ReleaseAfterHandler ==
  \A i \in Calls :
    pc[i] = "completed" =>
      \E a \in StepsOf(i, "napi_call_function"), b \in StepsOf(i, "free"),
         c \in StepsOf(i, "napi_delete_reference") : a < b /\ b < c

\* C11 as amended: the record of a queued request is released exactly once,
\* by the completion step and before the handler is invoked; the handler
\* reference is released only after the handler has been invoked, and after
\* the record: the order is record released, handler invoked, reference
\* released, and the last two may be missing.
C11_ReleaseBeforeHandler ==
  \A i \in Calls :
    /\ heap[i] = "released" <=> pc[i] = "completed"
    /\ pc[i] = "completed" =>
         /\ StepsOf(i, "free") = {1}
         /\ handler[i] # <<>> <=> StepsOf(i, "napi_call_function") = {2}
         /\ ref[i] = "released" <=> StepsOf(i, "napi_delete_reference") = {3}
    /\ ref[i] = "released" => (handler[i] # <<>> /\ heap[i] = "released")
    /\ pc[i] # "completed" => (steps[i] = <<>> /\ handler[i] = <<>>)

\* a completion that went through all of its steps
C11_Witness ==
  \E i \in Calls :
    /\ pc[i] = "completed"
    /\ Len(handler[i]) = 1
    /\ steps[i] = <<"free", "napi_call_function", "napi_delete_reference",
                    "napi_delete_async_work">>

\* the system calls of the executor proper, without those of its cleanup
IsExecutorCall(c) == c.name # "close"
ExecutorCalls(i) == SelectSeq(syscalls[i], IsExecutorCall)
\* socket(), setsockopt() and bind() fail with -1, if_nametoindex() with 0
Failed(c) == IF c.name = "if_nametoindex" THEN c.result = 0 ELSE c.result < 0
\* the place of each system call in the executor
Rank(name) ==
  CASE name = "socket" -> 1
    [] name = "if_nametoindex" -> 2
    [] name = "setsockopt" -> 3
    [] name = "bind" -> 4
    [] OTHER -> 5
\* what the caller asked for
InterfaceRequested(i) ==
  HasText(args[i].source_interface) /\ Len(args[i].source_interface.str) > 0
AddressRequested(i) == HasText(args[i].from_address)

(***************************************************************************)
(* C12: the executor calls socket, then the interface binding (only if an  *)
(* interface was requested), then bind (only if an address was requested), *)
(* and no call follows a failed one.                                       *)
(***************************************************************************)
C12_SyscallOrder ==
  \A i \in Calls :
    LET log == ExecutorCalls(i)
        names == {log[k].name : k \in 1..Len(log)}
    IN  /\ \A k \in 1..(Len(log) - 1) :
             /\ Rank(log[k].name) < Rank(log[k + 1].name)
             /\ ~Failed(log[k])
        /\ log # <<>> => log[1].name = "socket"
        /\ names \cap {"if_nametoindex", "setsockopt"} # {} =>
             InterfaceRequested(i)
        /\ "bind" \in names => AddressRequested(i)
        /\ (Executed(i) /\ log # <<>> /\ ~Failed(log[Len(log)])) =>
             /\ InterfaceRequested(i) => "setsockopt" \in names
             /\ AddressRequested(i) => "bind" \in names
        /\ \A k \in CallsOf(i, {"close"}) : k = Len(syscalls[i])

\* one request went through all the calls of the index-based platform, and
\* another that asked for an address stopped at a failed interface binding
C12_Witness ==
  \E i, j \in Calls :
    /\ Executed(i)
    /\ Len(ExecutorCalls(i)) = 4
    /\ data[i].fd >= 0
    /\ Executed(j)
    /\ AddressRequested(j)
    /\ Failed(ExecutorCalls(j)[Len(ExecutorCalls(j))])
    /\ ExecutorCalls(j)[Len(ExecutorCalls(j))].name = "setsockopt"
    /\ CallsOf(j, {"bind"}) = {}

\* the codes a failing system call of that name leaves in errno
ErrnosOf(name) ==
  CASE name = "socket" -> SocketErrnos
    [] name = "if_nametoindex" -> NametoindexErrnos
    [] name = "setsockopt" -> SetsockoptErrnos
    [] name = "bind" -> BindErrnos
    [] OTHER -> {}
\* the executor of request i has returned after a system call failed
ExecutorFailed(i) ==
  /\ Executed(i)
  /\ ExecutorCalls(i) # <<>>
  /\ Failed(ExecutorCalls(i)[Len(ExecutorCalls(i))])
\* the system call that failed
FailedCall(i) == ExecutorCalls(i)[Len(ExecutorCalls(i))]

(***************************************************************************)
(* C13: when the executor fails, the record names the system call that     *)
(* failed ("socket", "setsockopt", "if_nametoindex" on the index-based     *)
(* platform only, or "bind") and holds its error code, and the error given *)
(* to the handler carries that name and that code.                         *)
(***************************************************************************)
C13_FailureDelivered ==
  \A i \in Calls :
    ExecutorFailed(i) =>
      /\ data[i].fd = -1
      /\ data[i].syscall = FailedCall(i).name
      /\ data[i].errno \in ErrnosOf(FailedCall(i).name)
      /\ platform = "linux" => FailedCall(i).name # "if_nametoindex"
      /\ \A k \in 1..Len(handler[i]) :
           handler[i][k].error =
             JSSystemError(FailedCall(i).name, data[i].errno)

\* C13 as amended: the record names the system call that failed and holds
\* its code; the error given to the handler carries that name and code when
\* the dispatch status is napi_ok, and is an error made from the status,
\* without name or code, otherwise.
C13_FailureRecorded ==
  \A i \in Calls :
    ExecutorFailed(i) =>
      /\ data[i].fd = -1
      /\ data[i].syscall = FailedCall(i).name
      /\ data[i].errno \in ErrnosOf(FailedCall(i).name)
      /\ platform = "linux" => FailedCall(i).name # "if_nametoindex"
      /\ \A k \in 1..Len(handler[i]) :
           handler[i][k].error =
             IF status[i] = "napi_ok"
               THEN JSSystemError(FailedCall(i).name, data[i].errno)
               ELSE JSNapiError(status[i])

\* the failures of if_nametoindex() and of bind() were handed to handlers
C13_Witness ==
  \E i, j \in Calls :
    /\ ExecutorFailed(i)
    /\ FailedCall(i).name = "if_nametoindex"
    /\ handler[i] = <<[error |-> JSSystemError("if_nametoindex", data[i].errno),
                       fd |-> JSUndefined]>>
    /\ ExecutorFailed(j)
    /\ FailedCall(j).name = "bind"
    /\ Len(handler[j]) = 1
    /\ handler[j][1].error = JSSystemError("bind", data[j].errno)

\* record d holds a success, or a failure
Success(d) == d.fd >= 0 /\ d.syscall = "NULL" /\ d.errno = 0
Failure(d) == d.fd = -1 /\ d.errno # 0

(***************************************************************************)
(* C14: once the executor of a request has returned, its record holds      *)
(* either a success (descriptor >= 0, no syscall name, error code 0) or a   *)
(* failure (descriptor -1, error code not 0), and no step changes the      *)
(* record from then on, up to the completion and after it.                 *)
(***************************************************************************)
C14_OutcomeFinal ==
  /\ [](\A i \in Calls : Executed(i) => (Success(data[i]) \/ Failure(data[i])))
  /\ [][\A i \in Calls : Executed(i) => data'[i] = data[i]]_vars

\* a success and a failure are on record, one of them handed over
C14_Witness ==
  \E i, j \in Calls :
    /\ pc[i] = "completed"
    /\ Success(data[i])
    /\ Len(handler[i]) = 1
    /\ Executed(j)
    /\ Failure(data[j])
    /\ data[j].syscall = "setsockopt"

(***************************************************************************)
(* C15: every request that open queues has family AF_INET or AF_INET6, so  *)
(* that its executor never takes the branch of the unsupported family: it  *)
(* never returns without a socket() call and never records EAFNOSUPPORT.   *)
(***************************************************************************)
C15_FamilySupported ==
  \A i \in Calls :
    Queued(i) =>
      /\ data[i].sa_family \in {AF_INET, AF_INET6}
      /\ data[i].sa_family = napi_get_value_int32(args[i].socket_family)
      /\ Executed(i) =>
           /\ CallsOf(i, {"socket"}) # {}
           /\ data[i].errno # EAFNOSUPPORT

\* the executors of a request of each family have run
C15_Witness ==
  \E i, j \in Calls :
    /\ Executed(i)
    /\ data[i].sa_family = AF_INET
    /\ Executed(j)
    /\ data[j].sa_family = AF_INET6

\* what the handler of request i is given, by the dispatch status
Delivery(i) ==
  IF status[i] = "napi_ok"
    THEN Outcome(data[i])
    ELSE [error |-> JSNapiError(status[i]), fd |-> JSUndefined]
\* a step leaves request i alone: its record, its system calls, its
\* descriptors and the invocations of its handler
LeftAlone(i) ==
  /\ data'[i] = data[i]
  /\ syscalls'[i] = syscalls[i]
  /\ handler'[i] = handler[i]
  /\ status'[i] = status[i]
  /\ \A fd \in Fds : (fdtab[fd].open /\ fdtab[fd].owner = i) => fdtab'[fd] = fdtab[fd]

C17_AllReleased ==
  \A i \in Calls :
    pc[i] \in {"returned", "completed"} =>
      /\ heap[i] \in {"none", "released"}
      /\ ref[i] \in {"none", "released"}
      /\ work[i] \in {"none", "released"}

\* the descriptor that socket() returned to request i, -1 if it failed
SocketOf(i) == ExecutorCalls(i)[1].result
\* the descriptors that the cleanup of request i passed to close()
ClosedBy(i) == {syscalls[i][k].fd : k \in CallsOf(i, {"close"})}
\* the descriptor of the socket of request i is still open
SocketLeftOpen(i) ==
  /\ SocketOf(i) \in Fds
  /\ fdtab[SocketOf(i)].open
  /\ fdtab[SocketOf(i)].owner = i

(***************************************************************************)
(* C18: the cleanup of a failed executor leaves the socket open exactly    *)
(* when its descriptor is 0 or 1, and closes it when it is greater than 1. *)
(***************************************************************************)
C18_SkipsZeroAndOne ==
  \A i \in Calls :
    (ExecutorFailed(i) /\ SocketOf(i) >= 0) =>
      /\ SocketOf(i) \in {0, 1} <=> ClosedBy(i) = {}
      /\ SocketOf(i) > 1 <=> ClosedBy(i) = {SocketOf(i)}

\* C18 as amended: the cleanup of a failed executor skips close() exactly
\* when the descriptor is greater than 1, leaving that socket open, and
\* calls close() on every descriptor of at most 1: the sockets 0 and 1, and
\* the -1 of a failed socket().
C18_SkipsAboveOne ==
  \A i \in Calls :
    ExecutorFailed(i) =>
      /\ SocketOf(i) > 1 <=> ClosedBy(i) = {}
      /\ SocketOf(i) <= 1 <=> ClosedBy(i) = {SocketOf(i)}
      /\ SocketOf(i) > 1 <=> SocketLeftOpen(i)

\* socket() returned 1 to a request that failed later, and 1 was closed
C18_Witness ==
  \E i \in Calls :
    /\ ExecutorFailed(i)
    /\ SocketOf(i) = 1
    /\ ClosedBy(i) = {1}
    /\ ~fdtab[1].open

\* the failed system call of request i is one of the interface binding
InterfaceBindFailed(i) ==
  ExecutorFailed(i) /\ FailedCall(i).name \in {"setsockopt", "if_nametoindex"}
AddressBindFailed(i) == ExecutorFailed(i) /\ FailedCall(i).name = "bind"
\* the effects of _open_execute_fail on request i
FailRoutineRan(i) ==
  /\ data[i].fd = -1
  /\ data[i].syscall = FailedCall(i).name
  /\ data[i].errno # 0
  /\ ClosedBy(i) = IF SocketOf(i) > 1 THEN {} ELSE {SocketOf(i)}
\* the record of request i is as socket() left it
RecordUntouched(i) ==
  /\ data[i].fd = SocketOf(i)
  /\ data[i].syscall = "NULL"
  /\ data[i].errno = 0
  /\ ClosedBy(i) = {}

(***************************************************************************)
(* C19: after a failed address bind the executor returns without running   *)
(* the failure routine, and after a failed interface bind it runs it.      *)
(***************************************************************************)
C19_BindSkipsRoutine ==
  \A i \in Calls :
    /\ AddressBindFailed(i) => RecordUntouched(i)
    /\ InterfaceBindFailed(i) => FailRoutineRan(i)

\* C19 as amended: after a failed address bind the executor runs the same
\* failure routine as after a failed interface bind: the record gets the
\* name of the call, its error code and descriptor -1, and the socket is
\* closed only when its descriptor is at most 1.
C19_BindRunsRoutine ==
  \A i \in Calls :
    /\ AddressBindFailed(i) => FailRoutineRan(i)
    /\ InterfaceBindFailed(i) => FailRoutineRan(i)

\* a failed bind() and a failed interface binding are on record
C19_Witness ==
  \E i, j \in Calls :
    /\ AddressBindFailed(i)
    /\ data[i].syscall = "bind"
    /\ data[i].fd = -1
    /\ InterfaceBindFailed(j)
    /\ data[j].fd = -1

(***************************************************************************)
(* C20: in the record of every queued request the length of the interface  *)
(* name is at most IFNAMSIZ, the name fits its field with the terminator,   *)
(* and the length is 0 exactly when no name or an empty one was given; the *)
(* size of the address is 0 exactly when no address was given, and the     *)
(* size of the socket address of the family otherwise.                     *)
(***************************************************************************)
C20_RecordOfQueuedRequest ==
  \A i \in Calls :
    Queued(i) =>
      /\ data[i].interface_length <= IFNAMSIZ
      /\ Len(data[i].interface) = data[i].interface_length
      /\ Len(data[i].interface) + 1 <= IFNAMSIZ + 1
      /\ data[i].interface_length = 0 <=> ~InterfaceRequested(i)
      /\ data[i].sockaddr_size = 0 <=> Absent(args[i].from_address)
      /\ ~Absent(args[i].from_address) =>
           data[i].sockaddr_size =
             IF data[i].sa_family = AF_INET
               THEN SizeofSockaddrIn ELSE SizeofSockaddrIn6

\* an IPv4 request with a name and an address, and an IPv6 request with a
\* name of IFNAMSIZ characters and no address, are queued
C20_Witness ==
  \E i, j \in Calls :
    /\ Queued(i)
    /\ data[i].sa_family = AF_INET
    /\ data[i].sockaddr_size = SizeofSockaddrIn
    /\ data[i].interface_length \in 1..(IFNAMSIZ - 1)
    /\ Queued(j)
    /\ data[j].sa_family = AF_INET6
    /\ data[j].sockaddr_size = 0
    /\ data[j].interface_length = IFNAMSIZ

\* the descriptors handed to the handler of request i
DeliveredTo(i) ==
  {handler[i][k].fd.num : k \in {n \in 1..Len(handler[i]) :
      handler[i][n].fd.type = "number"}}
\* this step closes descriptor fd
Closes(fd) == fdtab[fd].open /\ ~fdtab'[fd].open

(***************************************************************************)
(* C21: every descriptor handed to a handler is open when it is handed     *)
(* over and is the one of the request's own socket(); a step closes a      *)
(* descriptor only as the failure cleanup of the request that owns it, so  *)
(* that the success path closes nothing and no cleanup closes a descriptor *)
(* of another request.                                                     *)
(***************************************************************************)
C21_DeliveredDescriptorOpen ==
  /\ [](\A i \in Calls : \A fd \in DeliveredTo(i) :
          /\ fd \in Fds
          /\ fdtab[fd].open
          /\ fdtab[fd].owner = i
          /\ fd = SocketOf(i))
  /\ [][\A fd \in Fds : Closes(fd) =>
          \E i \in Calls :
            /\ fdtab[fd].owner = i
            /\ data[i].fd = fd
            /\ pc[i] \in {"interface", "bind"}
            /\ pc'[i] = "executed"
            /\ data'[i].fd = -1]_vars

\* a request was handed its descriptor although the cleanup of another
\* request, whose socket was opened before and was still open when that
\* descriptor was created, has closed a descriptor
C21_Witness ==
  \E i, j \in Calls :
    /\ ExecutorFailed(i)
    /\ SocketOf(i) >= 0
    /\ ClosedBy(i) = {SocketOf(i)}
    /\ pc[j] = "completed"
    /\ SocketsOf(j) # {}
    /\ DeliveredTo(j) = {SocketOf(j)}
    /\ SocketOf(j) > SocketOf(i)
    /\ fdtab[SocketOf(j)].open
=============================================================================
